---- MODULE Spec2Model ----
(***************************************************************************)
(* GDP growth forecasting: the training-time data preparation              *)
(* (create_lagged_features, temporal_train_test_split), the request        *)
(* pipeline of POST /predict (validate_prediction_input, the encoder       *)
(* lookup, the model call), and the frontend's API service (the chart      *)
(* timeline of transformHistoricalData and addPredictionToTimeline, the    *)
(* failures of a network call and handleApiError).                         *)
(*                                                                         *)
(* These are separate programs: SpecTrain is the training script,          *)
(* SpecPredict the API server, SpecTimeline and SpecService the API        *)
(* service of the frontend; Spec is any of them.                           *)
(*                                                                         *)
(* Numbers.  A pandas/Python float is modelled as a sequence of length at  *)
(* most one: <<v>> is the number v, <<>> is NaN.  A text is a sequence of  *)
(* one-character strings, so that strip() and float() act on characters.   *)
(***************************************************************************)
EXTENDS Integers, Sequences, FiniteSets, TLC

\* ------------------------------------------------------------------ bounds
\* Years of the training corpus that the model covers: FirstYear .. LastYear.
NumYears == 3
\* The longest DataFrame (number of records) given to the training script.
MaxRecords == 4
\* How many fields of a request payload differ from the reference payload.
MaxDefects == 2
\* How many times the same request body is sent to the server.
MaxRequests == 2
\* The longest array of historical records the API service is given.
MaxPoints == 3
\* How many times addPredictionToTimeline is called on one chart.
MaxMerges == 3
\* How many network calls the API service makes, one after the other.
MaxAttempts == 2
\* How many things the dashboard's user does: pick a country, change an
\* input, click a button.
MaxEvents == 4

\* ------------------------------------------------------------- program data
FirstYear == 1972
LastYear == FirstYear + NumYears - 1
Years == FirstYear .. LastYear

NaN == <<>>
Num(v) == <<v>>
IsNaN(x) == x = NaN

\* Countries of the corpus, in the order Python compares their names.
CountryOrder == <<"Brazil", "China">>
Countries == {CountryOrder[i] : i \in 1 .. Len(CountryOrder)}
CountryRank(c) == CHOOSE i \in 1 .. Len(CountryOrder) : CountryOrder[i] = c

\* The six indicator columns, in the order of the source, and the target.
FeatureCols ==
  << "Population_Growth_Rate", "Exports_Growth_Rate", "Imports_Growth_Rate",
     "Investment_Growth_Rate", "Consumption_Growth_Rate", "Govt_Spend_Growth_Rate" >>
TargetCol == "GDP_Growth_Rate"
LagCols ==
  << "Population_Growth_Rate_Lag1", "Exports_Growth_Rate_Lag1", "Imports_Growth_Rate_Lag1",
     "Investment_Growth_Rate_Lag1", "Consumption_Growth_Rate_Lag1",
     "Govt_Spend_Growth_Rate_Lag1" >>
ColIndices == 1 .. Len(FeatureCols)
LagColSet == {LagCols[i] : i \in ColIndices}

\* ------------------------------------------------------------------- state
VARIABLES
  program,      \* "train" | "predict": which program this behaviour is of
  raw_df,       \* the DataFrame as read from the dataset (never reassigned)
  df,           \* the training script's df (reassigned by create_lagged_features)
  stage,        \* "raw" | "lagged" | "split" ("idle" in the other program)
  lagged,       \* whether df holds the result of create_lagged_features
  split_year,   \* the cut year given to temporal_train_test_split
  train_df,
  test_df,
  data,         \* POST /predict: the JSON body of the request, request.get_json()
  pc,           \* where the route is: "request" | "validated" | "encoded" | "done"
  validation,   \* what validate_prediction_input returned
  country_code, \* what encoder.transform returned (-1 before the lookup)
  model_calls,  \* how many times model.predict was invoked for the request
  response,     \* the HTTP response of the route
  model,        \* the server's global model, joblib.load(MODEL_PATH)
  requests,     \* how many requests with this body the server has received
  last_response, \* the response to the request before this one
  backendData,  \* API service: the array of HistoricalDataPoint from the backend
  chartData,    \* what transformHistoricalData returned for backendData
  predictedGrowth, \* the growth given to the latest addPredictionToTimeline
  timeline,     \* what the latest addPredictionToTimeline returned
  step,         \* "fetched" | "transformed" | "merged"
  merges,       \* how many times addPredictionToTimeline was called
  firstTimeline, \* per predicted growth, what the first call with it returned
  endpoint,     \* API service: the call in hand, "history" | "predict"
  phase,        \* "ready" | "in_flight" | "ended"
  attempts,     \* how many calls were started
  failure,      \* the evidence of how the call failed (NoFailure when it did not)
  classified,   \* the error the caller got for it (NoError when none)
  previous,     \* the failure and the error of the call before
  selectedCountry,  \* Dashboard: useState(""), "" when none is selected
  inputs,           \* the six indicator inputs (texts), by the name of their state
  isCalculating,
  prediction,       \* NoPrediction (null) or a number
  historicalData,   \* the ChartDataPoint[] of the chart
  showPrediction,
  isLoadingHistory,
  historyError,     \* NullMessage (null) or a message
  predictionMethod,
  apiError,         \* NullMessage (null) or a message
  fetches,          \* the calls of handleCountryChange, in the order they began
  predicts,         \* the calls of handlePredict, in the order they began
  events            \* how many things the user did

trainVars == <<raw_df, df, stage, lagged, split_year, train_df, test_df>>
predictVars ==
  <<data, pc, validation, country_code, model_calls, response, model, requests, last_response>>
timelineVars ==
  <<backendData, chartData, predictedGrowth, timeline, step, merges, firstTimeline>>
serviceVars == <<endpoint, phase, attempts, failure, classified, previous>>
dashboardVars ==
  <<selectedCountry, inputs, isCalculating, prediction, historicalData, showPrediction,
    isLoadingHistory, historyError, predictionMethod, apiError, fetches, predicts, events>>
\* What the steps of one program leave alone.
exceptTrain == <<program, predictVars, timelineVars, serviceVars, dashboardVars>>
exceptPredict == <<program, trainVars, timelineVars, serviceVars, dashboardVars>>
exceptTimeline == <<program, trainVars, predictVars, serviceVars, dashboardVars>>
exceptService == <<program, trainVars, predictVars, timelineVars, dashboardVars>>
exceptDashboard == <<program, trainVars, predictVars, timelineVars, serviceVars>>

\* ------------------------------------------------------- the training corpus
\* One record per (Country, Year), every indicator a number (no NaN in what
\* is read: NaN only arises from shift).  The observed values are all
\* different, so that a value identifies the record and the column it was
\* observed in; the code never branches on a value.
Observed(c, y, i) == Num(1000 * CountryRank(c) + 10 * (y - FirstYear) + i)

Record(c, y) ==
  [Country |-> c, Year |-> y] @@
  [col \in {FeatureCols[i] : i \in ColIndices} |->
     Observed(c, y, CHOOSE i \in ColIndices : FeatureCols[i] = col)] @@
  (TargetCol :> Observed(c, y, 0))

Keys == Countries \X Years

RECURSIVE Arrangements(_, _)
\* Every sequence of at most n distinct elements of S, in every order.
Arrangements(S, n) ==
  IF n = 0 \/ S = {} THEN {<<>>}
  ELSE {<<>>} \cup
       UNION {{<<k>> \o rest : rest \in Arrangements(S \ {k}, n - 1)} : k \in S}

DataFrames ==
  {[i \in 1 .. Len(ks) |-> Record(ks[i][1], ks[i][2])] : ks \in Arrangements(Keys, MaxRecords)}

\* ------------------------------------------------ create_lagged_features
\* Row a sorts before row b under sort_values(['Country', 'Year']).
RowBefore(a, b) ==
  \/ CountryRank(a.Country) < CountryRank(b.Country)
  \/ a.Country = b.Country /\ a.Year < b.Year

RECURSIVE InsertSorted(_, _)
InsertSorted(r, s) ==
  IF s = <<>> THEN <<r>>
  ELSE IF RowBefore(r, Head(s)) THEN <<r>> \o s
  ELSE <<Head(s)>> \o InsertSorted(r, Tail(s))

\* sort_values left out: the rows stay in the order of the input.
sort_values_identity(d) == d

RECURSIVE sort_values(_)
\* df.sort_values(['Country', 'Year']): ascending by Country, then by Year.
sort_values(d) ==
  IF d = <<>> THEN <<>>
  ELSE InsertSorted(d[Len(d)], sort_values(SubSeq(d, 1, Len(d) - 1)))

\* df.groupby('Country')[col].shift(1) at row i: the value of col in the row
\* before row i among the rows of the same Country, NaN when there is none.
GroupShift1(d, i, col) ==
  LET earlier == {j \in 1 .. i - 1 : d[j].Country = d[i].Country}
  IN  IF earlier = {} THEN NaN
      ELSE d[CHOOSE j \in earlier : \A k \in earlier : k <= j][col]

WithLagColumns(d) ==
  [i \in 1 .. Len(d) |->
     d[i] @@ [lc \in LagColSet |->
                GroupShift1(d, i, FeatureCols[CHOOSE k \in ColIndices : LagCols[k] = lc])]]

NumericCols(row) == DOMAIN row \ {"Country", "Year"}

\* df.dropna(): keep the rows none of whose values is NaN.
dropna(d) == SelectSeq(d, LAMBDA row : \A col \in NumericCols(row) : ~IsNaN(row[col]))

create_lagged_features(d) == dropna(WithLagColumns(sort_values(d)))

\* --------------------------------------------- temporal_train_test_split
\* The cut year kept on both sides.
temporal_train_test_split_overlap(d, year) ==
  [train_df |-> SelectSeq(d, LAMBDA row : row.Year <= year),
   test_df  |-> SelectSeq(d, LAMBDA row : row.Year >= year)]

\* The cut year kept on neither side.
temporal_train_test_split_drop(d, year) ==
  [train_df |-> SelectSeq(d, LAMBDA row : row.Year < year),
   test_df  |-> SelectSeq(d, LAMBDA row : row.Year > year)]

temporal_train_test_split(d, year) ==
  [train_df |-> SelectSeq(d, LAMBDA row : row.Year < year),
   test_df  |-> SelectSeq(d, LAMBDA row : row.Year >= year)]

\* The cut years tried: every year of the corpus and the year after the last.
SplitYears == FirstYear .. LastYear + 1


\* ================================================== POST /predict: the values
\* A JSON value of the request body: a number, a string (a text) or null.
JNum(n) == [t |-> "num", n |-> n, s |-> <<>>]
JStr(s) == [t |-> "str", n |-> 0, s |-> s]
JNull == [t |-> "null", n |-> 0, s |-> <<>>]

Whitespace == {" "}
DigitChars == <<"0", "1", "2", "3", "4", "5", "6", "7", "8", "9">>
IsDigit(ch) == \E i \in 1 .. Len(DigitChars) : DigitChars[i] = ch
DigitValue(ch) == (CHOOSE i \in 1 .. Len(DigitChars) : DigitChars[i] = ch) - 1

RECURSIVE LStrip(_)
LStrip(s) == IF s # <<>> /\ Head(s) \in Whitespace THEN LStrip(Tail(s)) ELSE s
RECURSIVE RStrip(_)
RStrip(s) ==
  IF s # <<>> /\ s[Len(s)] \in Whitespace THEN RStrip(SubSeq(s, 1, Len(s) - 1)) ELSE s
\* str.strip(): the text without its leading and trailing whitespace.
strip(s) == RStrip(LStrip(s))

RECURSIVE DigitsValue(_)
DigitsValue(s) ==
  IF s = <<>> THEN 0 ELSE 10 * DigitsValue(SubSeq(s, 1, Len(s) - 1)) + DigitValue(s[Len(s)])
RECURSIVE NatToText(_)
NatToText(n) ==
  IF n < 10 THEN <<DigitChars[n + 1]>> ELSE NatToText(n \div 10) \o <<DigitChars[(n % 10) + 1]>>

\* str(x) of a JSON value.
str(x) ==
  IF x.t = "str" THEN x.s
  ELSE IF x.t = "null" THEN <<"N", "o", "n", "e">>
  ELSE IF x.n < 0 THEN <<"-">> \o NatToText(-x.n) ELSE NatToText(x.n)

AllDigits(s) == s # <<>> /\ \A i \in 1 .. Len(s) : IsDigit(s[i])
NanText == <<"n", "a", "n">>

\* float(x): [ok |-> FALSE] stands for the ValueError (a text that is no number)
\* or the TypeError (null) that float raises.  Of the texts float accepts, the
\* model covers the decimal integers with an optional sign, and "nan".
float(x) ==
  IF x.t = "num" THEN [ok |-> TRUE, value |-> Num(x.n)]
  ELSE IF x.t = "null" THEN [ok |-> FALSE, value |-> NaN]
  ELSE LET txt == strip(x.s)
       IN  IF txt = NanText THEN [ok |-> TRUE, value |-> NaN]
           ELSE IF AllDigits(txt) THEN [ok |-> TRUE, value |-> Num(DigitsValue(txt))]
           ELSE IF txt # <<>> /\ Head(txt) \in {"-", "+"} /\ AllDigits(Tail(txt))
             THEN [ok |-> TRUE,
                   value |-> Num(IF Head(txt) = "-" THEN -DigitsValue(Tail(txt))
                                 ELSE DigitsValue(Tail(txt)))]
           ELSE [ok |-> FALSE, value |-> NaN]

RangeMin == -100
RangeMax == 100
\* a <= b on floats: false when either is NaN.
FloatLe(a, b) == ~IsNaN(a) /\ ~IsNaN(b) /\ a[1] <= b[1]

\* Only the upper bound is checked.
InRange_upper_only(value) == IsNaN(value) \/ FloatLe(value, Num(RangeMax))

\* -100 <= value <= 100
InRange(value) == FloatLe(Num(RangeMin), value) /\ FloatLe(value, Num(RangeMax))

\* ------------------------------------------- validate_prediction_input
required_fields ==
  <<"Country", "Population", "Exports", "Imports", "Investment", "Consumption", "Govt_Spend">>
numeric_fields ==
  <<"Population", "Exports", "Imports", "Investment", "Consumption", "Govt_Spend">>

\* The messages, as the f-string's fixed text and what it interpolates.
MsgMissing == "Missing required fields: {missing}"
MsgEmptyCountry == "Country name cannot be empty"
MsgOutOfRange == "{field} value {value} is outside reasonable range"
MsgInvalid == "Invalid {field} value: must be a number"
Message(text, fields, values) == [text |-> text, fields |-> fields, values |-> values]
None == Message("", <<>>, <<>>)
NoData == <<>>

\* Only the first missing field is reported.
MissingFields_first_only(d) ==
  LET all == SelectSeq(required_fields, LAMBDA f : f \notin DOMAIN d)
  IN  IF all = <<>> THEN <<>> ELSE <<Head(all)>>

\* missing = [f for f in required_fields if f not in data]
MissingFields(d) == SelectSeq(required_fields, LAMBDA f : f \notin DOMAIN d)

RECURSIVE ValidateNumeric(_, _, _)
\* The loop over the numeric fields from field i on, validated_data so far in
\* acc: float(), then the range check, field by field.
ValidateNumeric(d, i, acc) ==
  IF i > Len(numeric_fields)
    THEN [is_valid |-> TRUE, error_msg |-> None, validated_data |-> acc]
  ELSE LET field == numeric_fields[i]
           f == float(d[field])
       IN  IF ~f.ok
             THEN [is_valid |-> FALSE, error_msg |-> Message(MsgInvalid, <<field>>, <<>>),
                   validated_data |-> NoData]
           ELSE IF ~InRange(f.value)
             THEN [is_valid |-> FALSE,
                   error_msg |-> Message(MsgOutOfRange, <<field>>, <<f.value>>),
                   validated_data |-> NoData]
           ELSE ValidateNumeric(d, i + 1, acc @@ (field :> f.value))

\* The numeric fields are validated before the country.
validate_prediction_input_numeric_first(d) ==
  LET missing == MissingFields(d)
  IN  IF missing # <<>>
        THEN [is_valid |-> FALSE, error_msg |-> Message(MsgMissing, missing, <<>>),
              validated_data |-> NoData]
      ELSE LET country == strip(str(d["Country"]))
               numbers == ValidateNumeric(d, 1, "Country" :> country)
           IN  IF ~numbers.is_valid THEN numbers
               ELSE IF country = <<>>
                 THEN [is_valid |-> FALSE, error_msg |-> Message(MsgEmptyCountry, <<>>, <<>>),
                       validated_data |-> NoData]
               ELSE numbers

validate_prediction_input(d) ==
  LET missing == MissingFields(d)
  IN  IF missing # <<>>
        THEN [is_valid |-> FALSE, error_msg |-> Message(MsgMissing, missing, <<>>),
              validated_data |-> NoData]
      ELSE LET country == strip(str(d["Country"]))
           IN  IF country = <<>>
                 THEN [is_valid |-> FALSE, error_msg |-> Message(MsgEmptyCountry, <<>>, <<>>),
                       validated_data |-> NoData]
               ELSE ValidateNumeric(d, 1, "Country" :> country)

\* ------------------------------------------------------------ the encoder
\* Country names are abbreviated to two letters.
BR == <<"B", "R">>
CN == <<"C", "N">>
AT == <<"A", "T">>
\* encoder.classes_: the countries of the training corpus, sorted.
Classes == <<BR, CN>>
Vocabulary == {Classes[i] : i \in 1 .. Len(Classes)}
\* encoder.transform([name])[0]; raises ValueError on an unseen label.
transform(name) ==
  IF name \in Vocabulary
    THEN [ok |-> TRUE, code |-> (CHOOSE i \in 1 .. Len(Classes) : Classes[i] = name) - 1]
    ELSE [ok |-> FALSE, code |-> -1]

\* ------------------------------------------------------------- the model
\* The growth rates a fitted model predicts, in thousandths of a percent.
ModelOutputs == {-1799, 3454}

\* The global model: nothing when gdp_model.pkl did not load, else an estimator
\* fitted on n_features_in columns, with the seed of its fit.
NoModel == [fitted |-> FALSE, n_features_in |-> 0, seed |-> 0]
Estimator(n, seed) == [fitted |-> TRUE, n_features_in |-> n, seed |-> seed]
\* The training script fits on the six lag columns, the route passes the
\* country code and the six indicators.
Models == {NoModel, Estimator(Len(LagCols), 0), Estimator(1 + Len(LagCols), 1)}

\* features = [country_code, Population, ..., Govt_Spend]
Features(code, validated_data) ==
  <<Num(code)>> \o [i \in 1 .. Len(numeric_fields) |-> validated_data[numeric_fields[i]]]

RECURSIVE FeatureSum(_)
FeatureSum(X) == IF X = <<>> THEN 0 ELSE Head(X)[1] + FeatureSum(Tail(X))

\* The answer also depends on how many requests the server has handled.
model_predict_counting(m, X) ==
  IF ~m.fitted \/ m.n_features_in # Len(X) THEN [ok |-> FALSE, value |-> 0]
  ELSE [ok |-> TRUE,
        value |-> IF (m.seed + requests + FeatureSum(X)) % 2 = 0 THEN -1799 ELSE 3454]

\* model.predict([features])[0]: raises when there is no model (AttributeError)
\* or when the vector has not the width the model was fitted on (ValueError);
\* otherwise a value that the fitted model and the vector determine.
model_predict(m, X) ==
  IF ~m.fitted \/ m.n_features_in # Len(X) THEN [ok |-> FALSE, value |-> 0]
  ELSE [ok |-> TRUE, value |-> IF (m.seed + FeatureSum(X)) % 2 = 0 THEN -1799 ELSE 3454]
\* round(prediction, 2), in hundredths (no output above is a tie).
round2(thousandths) == (thousandths + 5) \div 10

\* ------------------------------------------------- the request payloads
\* The name under which the dashboard sends a field.
SentAs(f) ==
  CASE f = "Country" -> "country"
    [] f = "Population" -> "Population_Growth_Rate"
    [] f = "Exports" -> "Exports_Growth_Rate"
    [] f = "Imports" -> "Imports_Growth_Rate"
    [] f = "Investment" -> "Investment_Growth_Rate"
    [] f = "Consumption" -> "Consumption_Growth_Rate"
    [] f = "Govt_Spend" -> "Govt_Spend_Growth_Rate"

\* How a field appears in a payload: under its name, under another name, or not.
Present(v) == [how |-> "present", v |-> v]
Renamed(v) == [how |-> "renamed", v |-> v]
Absent == [how |-> "absent", v |-> JNull]

WellFormed(f) == IF f = "Country" THEN Present(JStr(BR)) ELSE Present(JNum(2))

\* The other ways a field appears (in range, on a bound, outside, no number,
\* blank, unknown, renamed, absent), numbered.
Defects(f) ==
  IF f = "Country"
    THEN <<Absent, Renamed(JStr(BR)), Present(JStr(<<>>)), Present(JStr(<<" ">>)),
           Present(JStr(<<" ", "B", "R", " ">>)), Present(JStr(CN)), Present(JStr(AT)),
           Present(JStr(<<"A", "T", " ">>))>>
    ELSE <<Absent, Renamed(JNum(2)), Present(JNull),
           Present(JNum(RangeMin - 1)), Present(JNum(RangeMin)),
           Present(JNum(RangeMax)), Present(JNum(RangeMax + 1)),
           Present(JStr(<<"5", "0">>)), Present(JStr(<<"a", "b", "c">>)),
           Present(JStr(NanText))>>

FieldIndices == 1 .. Len(required_fields)
\* The sets of at most MaxDefects fields (by index) that differ from WellFormed.
DefectSets == {D \in SUBSET FieldIndices : Cardinality(D) <= MaxDefects}
DefectNumbers == 1 .. Len(Defects("Population"))

\* How field i appears when the fields of D take the defects that c numbers.
Appearance(D, c, i) ==
  IF i \in D THEN Defects(required_fields[i])[c[i]] ELSE WellFormed(required_fields[i])

RECURSIVE Payload(_, _, _)
\* The JSON object of the first i fields.
Payload(D, c, i) ==
  IF i = 0 THEN <<>>
  ELSE LET f == required_fields[i]
           a == Appearance(D, c, i)
           before == Payload(D, c, i - 1)
       IN  CASE a.how = "present" -> before @@ (f :> a.v)
             [] a.how = "renamed" -> before @@ (SentAs(f) :> a.v)
             [] OTHER -> before

\* ================================== the API service: the chart's timeline
\* A JavaScript number is modelled in thousandths: 3450 is 3.45.  The inputs
\* below have no third decimal of 5, where the binary value of the number,
\* not its decimal text, decides the rounding.
Abs(n) == IF n < 0 THEN -n ELSE n
TwoDigits(n) == <<DigitChars[(n \div 10) + 1], DigitChars[(n % 10) + 1]>>
RECURSIVE Pow10(_)
Pow10(k) == IF k = 0 THEN 1 ELSE 10 * Pow10(k - 1)

\* The digits after the second decimal are cut off.
toFixed2_truncating(n, scale) ==
  LET h == (100 * Abs(n)) \div scale
  IN  (IF n < 0 THEN <<"-">> ELSE <<>>) \o NatToText(h \div 100) \o <<".">> \o TwoDigits(h % 100)

\* x.toFixed(2) for x = n / scale: the text of the nearest number with two
\* decimals, with "-" in front when x < 0.
toFixed2(n, scale) ==
  LET h == (200 * Abs(n) + scale) \div (2 * scale)
  IN  (IF n < 0 THEN <<"-">> ELSE <<>>) \o NatToText(h \div 100) \o <<".">> \o TwoDigits(h % 100)

\* parseFloat(text) of a decimal text with at most three decimals.
parseFloat(text) ==
  LET negative == text # <<>> /\ Head(text) = "-"
      body == IF negative THEN Tail(text) ELSE text
      dot == CHOOSE i \in 1 .. Len(body) : body[i] = "."
      decimals == SubSeq(body, dot + 1, Len(body))
      magnitude == 1000 * DigitsValue(SubSeq(body, 1, dot - 1))
                     + DigitsValue(decimals) * Pow10(3 - Len(decimals))
  IN  IF negative THEN -magnitude ELSE magnitude

\* interface HistoricalDataPoint
HistoricalDataPoint(year, growth) ==
  [Country |-> "Brazil", Year |-> year, GDP_Growth |-> growth,
   Exports_Growth |-> 4200, Imports_Growth |-> 3800]
\* interface ChartDataPoint
ChartDataPoint(year, growth, type) == [year |-> year, growth |-> growth, type |-> type]

\* The years and growths of the records: the last year of the dataset, the
\* last year of the dashboard's estimated series, and the year after it.
HistoryYears == {2021, 2024, 2025}
HistoryGrowths == {-1799, -4}
HistoricalDataPoints ==
  {HistoricalDataPoint(y, g) : y \in HistoryYears, g \in HistoryGrowths}
\* The growths of a prediction response.
PredictedGrowths == {3450, -1799}

RECURSIVE SortedByYear(_)
\* Array.prototype.sort by Year: a stable insertion sort.
SortedByYear(a) ==
  IF a = <<>> THEN <<>>
  ELSE LET rest == SortedByYear(Tail(a))
           before == SelectSeq(rest, LAMBDA r : r.Year < Head(a).Year)
           after == SelectSeq(rest, LAMBDA r : r.Year >= Head(a).Year)
       IN  before \o <<Head(a)>> \o after

\* A call of a function of the service: what it returns, and what the array
\* it was given holds after the call.
Call(returns, argument) == [returns |-> returns, argument |-> argument]

\* The array is sorted in place before the map.
transformHistoricalData_sorting(backend) ==
  LET sorted == SortedByYear(backend)
  IN  Call([i \in 1 .. Len(sorted) |->
              ChartDataPoint(NatToText(sorted[i].Year),
                             parseFloat(toFixed2(sorted[i].GDP_Growth, 1000)), "historical")],
           sorted)

\* backendData.map(point => ({year: point.Year.toString(),
\*   growth: parseFloat(point.GDP_Growth.toFixed(2)), type: 'historical'}))
transformHistoricalData(backend) ==
  Call([i \in 1 .. Len(backend) |->
          ChartDataPoint(NatToText(backend[i].Year),
                         parseFloat(toFixed2(backend[i].GDP_Growth, 1000)), "historical")],
       backend)

FirstForecastYear == 2025
SecondForecastYear == 2026
\* predictedGrowth * 1.05, as a number of hundred-thousandths.
Compounded(growth) == growth * 105
predictionPoints(growth) ==
  << ChartDataPoint(NatToText(FirstForecastYear), parseFloat(toFixed2(growth, 1000)),
                    "prediction"),
     ChartDataPoint(NatToText(SecondForecastYear),
                    parseFloat(toFixed2(Compounded(growth), 100000)), "prediction") >>

\* The prediction points come first.
addPredictionToTimeline_prepending(growth, existingData) ==
  Call(predictionPoints(growth) \o existingData, existingData)

\* The years count on from the calls made so far.
addPredictionToTimeline_counting(growth, existingData) ==
  Call(existingData
         \o [i \in 1 .. 2 |->
               [predictionPoints(growth)[i] EXCEPT
                  !.year = NatToText(FirstForecastYear + 2 * merges + i - 1)]],
       existingData)

\* return [...existingData, ...predictionPoints]
addPredictionToTimeline(growth, existingData) ==
  Call(existingData \o predictionPoints(growth), existingData)

NotCalled == <<>>
TimelineIdle ==
  /\ backendData = <<>>
  /\ chartData = <<>>
  /\ predictedGrowth = 0
  /\ timeline = <<>>
  /\ step = "idle"
  /\ merges = 0
  /\ firstTimeline = <<>>

\* ================================ the API service: the failures of a call
\* The evidence of a failed call: where it failed (origin), and with it the
\* status and the message of the response body, the fields the validator
\* named, or the text of the exception.
Failure(origin, status, body, fields, raw) ==
  [origin |-> origin, status |-> status, body |-> body, fields |-> fields, raw |-> raw]
NoFailure == Failure("none", 0, "", <<>>, "")

\* The texts of raw exceptions, the statuses and the body messages of failed
\* responses, and the field lists of the validator.
RawTexts == {"TypeError: Failed to fetch", "ECONNREFUSED 127.0.0.1:5000"}
Statuses == {304, 400, 499, 500, 599}
BodyMessages == {"", "Country 'AT' not found"}
FieldLists == {<<"Exports">>, <<"Exports", "Govt_Spend">>}

Failures(e) ==
  {Failure("connection", 0, "", <<>>, raw) : raw \in RawTexts}
    \cup {Failure("deadline", 0, "", <<>>, raw) : raw \in RawTexts}
    \cup {Failure("response", status, body, <<>>, "") : status \in Statuses, body \in BodyMessages}
    \cup {Failure("other", 0, "", <<>>, raw) : raw \in RawTexts}
    \cup (IF e = "predict"
            THEN {Failure("validator", 0, "", fields, "") : fields \in FieldLists}
            ELSE {})

\* The user-facing messages.
MsgNetwork == "Unable to connect to the server. Please check your connection and try again."
MsgTimeout == "Request timed out. Please try again."
MsgServer == "Server error. The prediction service is temporarily unavailable."
MsgClient == "Invalid request. Please check your inputs."
MsgValidation == "Invalid input: {fields}"
MsgUnknown == "An unexpected error occurred"

\* The message is the fixed text and what is put into it (nothing, for most).
ClassifiedError(kind, text, detail, retryable, fields) ==
  [kind |-> kind, message |-> [text |-> text, detail |-> detail],
   retryable |-> retryable, fields |-> fields]
NoError == ClassifiedError("none", "", "", FALSE, <<>>)

\* Every failed response is taken for a fault of the request.
classify_any_status_is_client(f) ==
  CASE f.origin = "connection" -> ClassifiedError("Network", MsgNetwork, "", TRUE, <<>>)
    [] f.origin = "deadline" -> ClassifiedError("Timeout", MsgTimeout, "", TRUE, <<>>)
    [] f.origin = "response" /\ f.status >= 400 ->
         IF f.body # "" THEN ClassifiedError("ClientError", "{body}", f.body, FALSE, <<>>)
         ELSE ClassifiedError("ClientError", MsgClient, "", FALSE, <<>>)
    [] f.origin = "validator" ->
         ClassifiedError("Validation", MsgValidation, "", FALSE, f.fields)
    [] OTHER -> ClassifiedError("Unknown", MsgUnknown, "", FALSE, <<>>)

\* The text of the exception is shown for what has no category.
classify_echoing(f) ==
  CASE f.origin = "connection" -> ClassifiedError("Network", MsgNetwork, "", TRUE, <<>>)
    [] f.origin = "deadline" -> ClassifiedError("Timeout", MsgTimeout, "", TRUE, <<>>)
    [] f.origin = "response" /\ f.status \in 400 .. 499 ->
         IF f.body # "" THEN ClassifiedError("ClientError", "{body}", f.body, FALSE, <<>>)
         ELSE ClassifiedError("ClientError", MsgClient, "", FALSE, <<>>)
    [] f.origin = "response" /\ f.status \in 500 .. 599 ->
         ClassifiedError("ServerError", MsgServer, "", TRUE, <<>>)
    [] f.origin = "validator" ->
         ClassifiedError("Validation", MsgValidation, "", FALSE, f.fields)
    [] OTHER -> ClassifiedError("Unknown", "{raw}", f.raw, FALSE, <<>>)

\* The abort of the deadline is taken for a failed connection.
classify_abort_is_network(f) ==
  CASE f.origin \in {"connection", "deadline"} ->
         ClassifiedError("Network", MsgNetwork, "", TRUE, <<>>)
    [] f.origin = "response" /\ f.status \in 400 .. 499 ->
         IF f.body # "" THEN ClassifiedError("ClientError", "{body}", f.body, FALSE, <<>>)
         ELSE ClassifiedError("ClientError", MsgClient, "", FALSE, <<>>)
    [] f.origin = "response" /\ f.status \in 500 .. 599 ->
         ClassifiedError("ServerError", MsgServer, "", TRUE, <<>>)
    [] f.origin = "validator" ->
         ClassifiedError("Validation", MsgValidation, "", FALSE, f.fields)
    [] OTHER -> ClassifiedError("Unknown", MsgUnknown, "", FALSE, <<>>)

\* handleApiError(error): the one error of the taxonomy for a failure.
classify(f) ==
  CASE f.origin = "connection" -> ClassifiedError("Network", MsgNetwork, "", TRUE, <<>>)
    [] f.origin = "deadline" -> ClassifiedError("Timeout", MsgTimeout, "", TRUE, <<>>)
    [] f.origin = "response" /\ f.status \in 400 .. 499 ->
         IF f.body # "" THEN ClassifiedError("ClientError", "{body}", f.body, FALSE, <<>>)
         ELSE ClassifiedError("ClientError", MsgClient, "", FALSE, <<>>)
    [] f.origin = "response" /\ f.status \in 500 .. 599 ->
         ClassifiedError("ServerError", MsgServer, "", TRUE, <<>>)
    [] f.origin = "validator" ->
         ClassifiedError("Validation", MsgValidation, "", FALSE, f.fields)
    [] OTHER -> ClassifiedError("Unknown", MsgUnknown, "", FALSE, <<>>)

NoCall == [failure |-> NoFailure, classified |-> NoError]
ServiceIdle ==
  /\ endpoint = ""
  /\ phase = "idle"
  /\ attempts = 0
  /\ failure = NoFailure
  /\ classified = NoError
  /\ previous = NoCall

\* ======================================================== the Dashboard
\* The states of the six indicator inputs.
InputNameSet ==
  {"populationGrowth", "exportsGrowth", "importsGrowth", "investment", "consumption",
   "governmentSpending"}
\* What an input holds: nothing, or a typed number.
EmptyText == <<>>
TypedText == <<"2", ".", "5">>
InputTexts == {EmptyText, TypedText}
\* The inputs the user changes after the page is filled in: the first and the
\* last of the form.
EditedInputs == {"populationGrowth", "governmentSpending"}
EmptyForm == [n \in InputNameSet |-> EmptyText]
FilledForm == [n \in InputNameSet |-> TypedText]

\* null, for a message and for the prediction.
NullMessage == [text |-> "", detail |-> ""]
NoPrediction == <<>>

\* What GET /api/history?country= answers for a country.
BackendHistory(country) ==
  IF country = "Brazil"
    THEN << [HistoricalDataPoint(2021, -1799) EXCEPT !.Country = country],
            [HistoricalDataPoint(2024, -4) EXCEPT !.Country = country] >>
    ELSE << [HistoricalDataPoint(2024, -1799) EXCEPT !.Country = country] >>

\* interface PredictionResponse, as handlePredict reads it.
PredictionResponse(growth) ==
  [predicted_gdp_growth |-> growth,
   model_type |-> IF growth >= 0 THEN "AI Model" ELSE "Simulation"]
NoResponseYet == [predicted_gdp_growth |-> 0, model_type |-> ""]

\* How a call of the API service fails in the Dashboard's runs.
DashboardFailures ==
  {Failure("deadline", 0, "", <<>>, "TypeError: Failed to fetch"),
   Failure("response", 400, "Country 'AT' not found", <<>>, "")}

\* generateHistoricalData(country): its first statement reads countries, which
\* is a state of the Dashboard component and no name of the module's scope,
\* so the call throws a ReferenceError and returns no series.
generateHistoricalData(country) == [throws |-> TRUE, data |-> <<>>]

\* d.type === 'historical' / 'prediction'
OfType(points, type) == SelectSeq(points, LAMBDA d : d.type = type)

\* A call of handleCountryChange: its argument and how far it is.
FetchCall(country, state) == [country |-> country, state |-> state]
\* const requestData: apiService.PredictionRequest = {...}
PredictionRequest(country, form) ==
  [Country |-> country,
   Population_Growth_Rate |-> parseFloat(form["populationGrowth"]),
   Exports_Growth_Rate |-> parseFloat(form["exportsGrowth"]),
   Imports_Growth_Rate |-> parseFloat(form["importsGrowth"]),
   Investment_Growth_Rate |-> parseFloat(form["investment"]),
   Consumption_Growth_Rate |-> parseFloat(form["consumption"]),
   Govt_Spend_Growth_Rate |-> parseFloat(form["governmentSpending"])]
\* A call of handlePredict: how far it is ("submit": awaiting submitPrediction,
\* "history": awaiting fetchHistoricalData, "ok", "failed", "returned"), the
\* historicalData and selectedCountry of the render it was created in, the
\* requests it sent, the response once it is there, what prediction and
\* predictionMethod were when it began, and whether it fetched the history.
\* What a call no longer reads is dropped when it ends.
PredictCall(at, captured, country, sent, answer, before, fetched) ==
  [stage |-> at, historicalData |-> captured, country |-> country, requests |-> sent,
   response |-> answer, before |-> before, fetched |-> fetched]
Ended(call, at) ==
  PredictCall(at, <<>>, "", <<>>, NoResponseYet, <<>>, call.fetched)

DashboardIdle ==
  /\ selectedCountry = ""
  /\ inputs = EmptyForm
  /\ isCalculating = FALSE
  /\ prediction = NoPrediction
  /\ historicalData = <<>>
  /\ showPrediction = FALSE
  /\ isLoadingHistory = FALSE
  /\ historyError = NullMessage
  /\ predictionMethod = ""
  /\ apiError = NullMessage
  /\ fetches = <<>>
  /\ predicts = <<>>
  /\ events = 0

\* ------------------------------------------------------ the route predict()
NoResponse ==
  [status |-> 0, error |-> "", message |-> None, country |-> <<>>, growth |-> 0, method |-> ""]
NotValidated == [is_valid |-> FALSE, error_msg |-> None, validated_data |-> NoData]

PredictIdle ==
  /\ data = <<>>
  /\ pc = "idle"
  /\ validation = NotValidated
  /\ country_code = -1
  /\ model_calls = 0
  /\ response = NoResponse
  /\ model = NoModel
  /\ requests = 0
  /\ last_response = NoResponse

TrainIdle ==
  /\ raw_df = <<>>
  /\ df = <<>>
  /\ stage = "idle"
  /\ lagged = FALSE
  /\ split_year = 0
  /\ train_df = <<>>
  /\ test_df = <<>>

InitPredict ==
  /\ program = "predict"
  /\ TrainIdle
  /\ TimelineIdle
  /\ ServiceIdle
  /\ DashboardIdle
  /\ \E D \in DefectSets :
       \E c \in [D -> DefectNumbers] :
         /\ \A i \in D : c[i] <= Len(Defects(required_fields[i]))
         /\ data = Payload(D, c, Len(required_fields))
  /\ pc = "request"
  /\ validation = NotValidated
  /\ country_code = -1
  /\ model_calls = 0
  /\ response = NoResponse
  /\ model \in Models
  /\ requests = 1
  /\ last_response = NoResponse

\* is_valid, error_msg, validated_data = validate_prediction_input(data),
\* and the 400 'Invalid input' when not is_valid.
ValidateInput ==
  /\ program = "predict"
  /\ pc = "request"
  /\ validation' = validate_prediction_input(data)
  /\ IF validation'.is_valid
       THEN /\ pc' = "validated"
            /\ UNCHANGED response
       ELSE /\ pc' = "done"
            /\ response' = [NoResponse EXCEPT !.status = 400, !.error = "Invalid input",
                                              !.message = validation'.error_msg]
  /\ UNCHANGED <<exceptPredict, data, country_code, model_calls, model, requests,
                 last_response>>

\* The unseen label is not caught: the route goes on to the model with no code.
EncodeCountry_unchecked ==
  /\ program = "predict"
  /\ pc = "validated"
  /\ country_code' = transform(validation.validated_data["Country"]).code
  /\ pc' = "encoded"
  /\ UNCHANGED <<exceptPredict, data, validation, model_calls, response, model,
                 requests, last_response>>

\* country_code = encoder.transform([validated_data['Country']])[0], and the
\* 400 'Unknown country' on its ValueError.
EncodeCountry ==
  /\ program = "predict"
  /\ pc = "validated"
  /\ LET t == transform(validation.validated_data["Country"])
     IN  IF t.ok
           THEN /\ country_code' = t.code
                /\ pc' = "encoded"
                /\ UNCHANGED response
           ELSE /\ pc' = "done"
                /\ response' =
                     [NoResponse EXCEPT
                        !.status = 400, !.error = "Unknown country",
                        !.message = Message("Country '{country}' not found", <<>>, <<>>),
                        !.country = validation.validated_data["Country"]]
                /\ UNCHANGED country_code
  /\ UNCHANGED <<exceptPredict, data, validation, model_calls, model, requests, last_response>>

\* prediction = model.predict([features])[0], and the 200 response.  Nothing
\* in the route catches what model.predict raises: the server answers 500.
ModelPredict ==
  /\ program = "predict"
  /\ pc = "encoded"
  /\ model_calls' = model_calls + 1
  /\ LET predicted == model_predict(model, Features(country_code, validation.validated_data))
     IN  IF predicted.ok
           THEN response' =
                  [NoResponse EXCEPT
                     !.status = 200, !.growth = round2(predicted.value),
                     !.method = "AI Model", !.country = validation.validated_data["Country"]]
           ELSE response' =
                  [NoResponse EXCEPT !.status = 500, !.error = "Internal Server Error"]
  /\ pc' = "done"
  /\ UNCHANGED <<exceptPredict, data, validation, country_code, model, requests,
                 last_response>>

\* The client sends the same body again: the route runs anew in the same
\* server process, with the same globals.
NextRequest ==
  /\ program = "predict"
  /\ pc = "done"
  /\ requests < MaxRequests
  /\ requests' = requests + 1
  /\ last_response' = response
  /\ pc' = "request"
  /\ validation' = NotValidated
  /\ country_code' = -1
  /\ model_calls' = 0
  /\ response' = NoResponse
  /\ UNCHANGED <<exceptPredict, data, model>>

NextPredict == ValidateInput \/ EncodeCountry \/ ModelPredict \/ NextRequest

\* ------------------------------------------------- the training script
InitTrain ==
  /\ program = "train"
  /\ raw_df \in DataFrames
  /\ df = raw_df
  /\ stage = "raw"
  /\ lagged = FALSE
  /\ split_year = 0
  /\ train_df = <<>>
  /\ test_df = <<>>
  /\ PredictIdle
  /\ TimelineIdle
  /\ ServiceIdle
  /\ DashboardIdle

\* df = create_lagged_features(df)
CreateLaggedFeatures ==
  /\ program = "train"
  /\ stage = "raw"
  /\ df' = create_lagged_features(df)
  /\ stage' = "lagged"
  /\ lagged' = TRUE
  /\ UNCHANGED <<exceptTrain, raw_df, split_year, train_df, test_df>>

\* train_df, test_df = temporal_train_test_split(df, split_year)
TemporalSplit ==
  /\ program = "train"
  /\ stage \in {"raw", "lagged"}
  /\ \E year \in SplitYears :
       LET parts == temporal_train_test_split(df, year)
       IN  /\ split_year' = year
           /\ train_df' = parts.train_df
           /\ test_df' = parts.test_df
  /\ stage' = "split"
  /\ UNCHANGED <<exceptTrain, raw_df, df, lagged>>

NextTrain == CreateLaggedFeatures \/ TemporalSplit

\* ------------------------------------ the API service: building a timeline
\* The backend has answered GET /api/history with an array of records.
InitTimeline ==
  /\ program = "timeline"
  /\ TrainIdle
  /\ PredictIdle
  /\ ServiceIdle
  /\ DashboardIdle
  /\ \E n \in 0 .. MaxPoints : backendData \in [1 .. n -> HistoricalDataPoints]
  /\ chartData = <<>>
  /\ predictedGrowth = 0
  /\ timeline = <<>>
  /\ step = "fetched"
  /\ merges = 0
  /\ firstTimeline = [g \in PredictedGrowths |-> NotCalled]

\* const transformed = apiService.transformHistoricalData(data)
TransformHistoricalData ==
  /\ program = "timeline"
  /\ step = "fetched"
  /\ LET call == transformHistoricalData(backendData)
     IN  /\ chartData' = call.returns
         /\ backendData' = call.argument
  /\ step' = "transformed"
  /\ UNCHANGED <<exceptTimeline, predictedGrowth, timeline, merges, firstTimeline>>

\* apiService.addPredictionToTimeline(response.predicted_gdp_growth, historicalOnly)
AddPredictionToTimeline ==
  /\ program = "timeline"
  /\ step \in {"transformed", "merged"}
  /\ merges < MaxMerges
  /\ \E growth \in PredictedGrowths :
       LET call == addPredictionToTimeline(growth, chartData)
       IN  /\ timeline' = call.returns
           /\ chartData' = call.argument
           /\ predictedGrowth' = growth
           /\ firstTimeline' =
                IF firstTimeline[growth] = NotCalled
                  THEN [firstTimeline EXCEPT ![growth] = call.returns]
                  ELSE firstTimeline
  /\ merges' = merges + 1
  /\ step' = "merged"
  /\ UNCHANGED <<exceptTimeline, backendData>>

NextTimeline == TransformHistoricalData \/ AddPredictionToTimeline

\* --------------------------------------- the API service: a network call
InitService ==
  /\ program = "service"
  /\ TrainIdle
  /\ PredictIdle
  /\ TimelineIdle
  /\ endpoint = ""
  /\ phase = "ready"
  /\ attempts = 0
  /\ failure = NoFailure
  /\ classified = NoError
  /\ previous = NoCall
  /\ DashboardIdle

\* await apiService.fetchHistoricalData(country), await
\* apiService.submitPrediction(requestData): the request goes out.
StartCall ==
  /\ program = "service"
  /\ phase \in {"ready", "ended"}
  /\ attempts < MaxAttempts
  /\ endpoint' \in {"history", "predict"}
  /\ phase' = "in_flight"
  /\ attempts' = attempts + 1
  /\ previous' = [failure |-> failure, classified |-> classified]
  /\ failure' = NoFailure
  /\ classified' = NoError
  /\ UNCHANGED exceptService

\* The await returns the data of a 2xx response.
CallSucceeds ==
  /\ program = "service"
  /\ phase = "in_flight"
  /\ phase' = "ended"
  /\ UNCHANGED <<exceptService, endpoint, attempts, failure, classified, previous>>

\* The await throws before the deadline, and the caller's catch gets the
\* error of handleApiError.
CallFails ==
  /\ program = "service"
  /\ phase = "in_flight"
  /\ \E f \in Failures(endpoint) :
       /\ f.origin # "deadline"
       /\ failure' = f
       /\ classified' = classify(f)
  /\ phase' = "ended"
  /\ UNCHANGED <<exceptService, endpoint, attempts, previous>>

\* No response within the timeout: the call is given up, the await throws.
DeadlinePasses ==
  /\ program = "service"
  /\ phase = "in_flight"
  /\ \E f \in Failures(endpoint) :
       /\ f.origin = "deadline"
       /\ failure' = f
       /\ classified' = classify(f)
  /\ phase' = "ended"
  /\ UNCHANGED <<exceptService, endpoint, attempts, previous>>

NextService == StartCall \/ CallSucceeds \/ CallFails \/ DeadlinePasses

\* ------------------------------------------------------ the Dashboard's steps
\* The page is mounted; the user may have typed the six indicators.
InitDashboard ==
  /\ program = "dashboard"
  /\ TrainIdle
  /\ PredictIdle
  /\ TimelineIdle
  /\ ServiceIdle
  /\ selectedCountry = ""
  /\ inputs \in {EmptyForm, FilledForm}
  /\ isCalculating = FALSE
  /\ prediction = NoPrediction
  /\ historicalData = <<>>
  /\ showPrediction = FALSE
  /\ isLoadingHistory = FALSE
  /\ historyError = NullMessage
  /\ predictionMethod = ""
  /\ apiError = NullMessage
  /\ fetches = <<>>
  /\ predicts = <<>>
  /\ events = 0

\* handleCountryChange(country), up to its await.
handleCountryChange(country) ==
  /\ events < MaxEvents
  /\ events' = events + 1
  /\ selectedCountry' = country
  /\ isLoadingHistory' = TRUE
  /\ historyError' = NullMessage
  /\ fetches' = Append(fetches, FetchCall(country, "pending"))
  /\ UNCHANGED <<exceptDashboard, inputs, isCalculating, prediction, historicalData,
                 showPrediction, predictionMethod, apiError, predicts>>

\* <Select value={selectedCountry} onValueChange={handleCountryChange}>: the
\* user picks another country.
SelectCountry ==
  /\ program = "dashboard"
  /\ \E country \in Countries \ {selectedCountry} : handleCountryChange(country)

\* The Refresh button of the history warning.
Refresh ==
  /\ program = "dashboard"
  /\ historyError # NullMessage
  /\ selectedCountry # ""
  /\ handleCountryChange(selectedCountry)

\* handleCountryChange: fetchHistoricalData answered; try and finally.
FetchSucceeds ==
  /\ program = "dashboard"
  /\ \E i \in 1 .. Len(fetches) :
       /\ fetches[i].state = "pending"
       /\ historicalData' = transformHistoricalData(BackendHistory(fetches[i].country)).returns
       /\ fetches' = [fetches EXCEPT ![i].state = "ok"]
  /\ isLoadingHistory' = FALSE
  /\ UNCHANGED <<exceptDashboard, selectedCountry, inputs, isCalculating, prediction,
                 showPrediction, historyError, predictionMethod, apiError, predicts, events>>

\* handleCountryChange: fetchHistoricalData threw; catch and finally.  What
\* generateHistoricalData throws leaves the catch block before
\* setHistoricalData(mockData).
FetchFails ==
  /\ program = "dashboard"
  /\ \E i \in 1 .. Len(fetches), f \in DashboardFailures :
       /\ fetches[i].state = "pending"
       /\ historyError' = classify(f).message
       /\ LET mockData == generateHistoricalData(fetches[i].country)
          IN  historicalData' = IF mockData.throws THEN historicalData ELSE mockData.data
       /\ fetches' = [fetches EXCEPT ![i].state = "failed"]
  /\ isLoadingHistory' = FALSE
  /\ UNCHANGED <<exceptDashboard, selectedCountry, inputs, isCalculating, prediction,
                 showPrediction, predictionMethod, apiError, predicts, events>>

\* onChange={(e) => setPopulationGrowth(e.target.value)} and its five likes.
EditInput ==
  /\ program = "dashboard"
  /\ events < MaxEvents
  /\ \E name \in EditedInputs, text \in InputTexts :
       /\ text # inputs[name]
       /\ inputs' = [inputs EXCEPT ![name] = text]
  /\ events' = events + 1
  /\ UNCHANGED <<exceptDashboard, selectedCountry, isCalculating, prediction, historicalData,
                 showPrediction, isLoadingHistory, historyError, predictionMethod, apiError,
                 fetches, predicts>>

\* if (!selectedCountry || !populationGrowth || ... ) return;
HasEveryInput(country, form) ==
  /\ country # ""
  /\ \A name \in InputNameSet : form[name] # EmptyText

\* prediction and predictionMethod, as a call finds them.
Shown == <<[prediction |-> prediction, predictionMethod |-> predictionMethod]>>

\* The handler sends what it has, complete or not.
handlePredict_unguarded ==
  /\ events < MaxEvents
  /\ events' = events + 1
  /\ isCalculating' = TRUE
  /\ apiError' = NullMessage
  /\ predicts' =
       Append(predicts,
              PredictCall("submit", historicalData, selectedCountry,
                          <<[Country |-> selectedCountry]>>, NoResponseYet, Shown, FALSE))
  /\ UNCHANGED <<exceptDashboard, selectedCountry, inputs, prediction, historicalData,
                 showPrediction, isLoadingHistory, historyError, predictionMethod, fetches>>

\* handlePredict(), up to its first await.
handlePredict ==
  /\ events < MaxEvents
  /\ events' = events + 1
  /\ IF HasEveryInput(selectedCountry, inputs)
       THEN /\ isCalculating' = TRUE
            /\ apiError' = NullMessage
            /\ predicts' =
                 Append(predicts,
                        PredictCall("submit", historicalData, selectedCountry,
                                    <<PredictionRequest(selectedCountry, inputs)>>,
                                    NoResponseYet, Shown, FALSE))
       ELSE /\ predicts' =
                 Append(predicts,
                        PredictCall("returned", <<>>, "", <<>>, NoResponseYet, <<>>, FALSE))
            /\ UNCHANGED <<isCalculating, apiError>>
  /\ UNCHANGED <<exceptDashboard, selectedCountry, inputs, prediction, historicalData,
                 showPrediction, isLoadingHistory, historyError, predictionMethod, fetches>>

\* The button is disabled by a missing value only.
GenerateDisabled_while_incomplete == ~HasEveryInput(selectedCountry, inputs)

\* disabled={!selectedCountry || ... || isCalculating} of Generate Prediction
GenerateDisabled == ~HasEveryInput(selectedCountry, inputs) \/ isCalculating

\* The Generate Prediction button.
ClickGenerate ==
  /\ program = "dashboard"
  /\ ~GenerateDisabled
  /\ handlePredict

\* The Retry button of the Prediction Error card: {apiError && (...)}.
ClickRetry ==
  /\ program = "dashboard"
  /\ apiError # NullMessage
  /\ handlePredict

\* historicalData.length === 0 || historicalData.every(d => d.type === 'prediction')
NotLoaded(points) == Len(points) = 0 \/ \A k \in 1 .. Len(points) : points[k].type = "prediction"

\* Of the values a state is set to in one run of a handler, the last one stays.
LastSet(values) == values[Len(values)]

\* The prediction points are added to everything the chart held.
ShowPrediction_appending(i, growth, transformed) ==
  /\ LET withPrediction == addPredictionToTimeline(growth, predicts[i].historicalData).returns
     IN  historicalData' = LastSet(transformed \o <<withPrediction>>)
  /\ showPrediction' = TRUE
  /\ isCalculating' = FALSE

\* The end of handlePredict's try block, from // Add prediction to timeline
\* on, and finally: historicalData is the array of the render the handler
\* was created in.  transformed holds what setHistoricalData(transformed) set
\* before, if it ran.
ShowPrediction(i, growth, transformed) ==
  /\ LET historicalOnly == OfType(predicts[i].historicalData, "historical")
         withPrediction == addPredictionToTimeline(growth, historicalOnly).returns
     IN  historicalData' = LastSet(transformed \o <<withPrediction>>)
  /\ showPrediction' = TRUE
  /\ isCalculating' = FALSE

\* handlePredict: submitPrediction answered.
PredictSucceeds ==
  /\ program = "dashboard"
  /\ \E i \in 1 .. Len(predicts), growth \in PredictedGrowths :
       LET response_ == PredictionResponse(growth)
       IN  /\ predicts[i].stage = "submit"
           /\ prediction' = <<response_.predicted_gdp_growth>>
           /\ predictionMethod' = response_.model_type
           /\ IF NotLoaded(predicts[i].historicalData)
                THEN /\ predicts' =
                          [predicts EXCEPT
                             ![i].stage = "history", ![i].response = response_,
                             ![i].fetched = TRUE,
                             ![i].requests = @ \o <<[Country |-> predicts[i].country]>>]
                     /\ UNCHANGED <<historicalData, showPrediction, isCalculating>>
                ELSE /\ ShowPrediction(i, response_.predicted_gdp_growth, <<>>)
                     /\ predicts' = [predicts EXCEPT ![i] = Ended(@, "ok")]
  /\ UNCHANGED <<exceptDashboard, selectedCountry, inputs, isLoadingHistory, historyError,
                 apiError, fetches, events>>

\* The catch block shows a forecast of its own making.
PredictThrows_fabricating(i) ==
  /\ \E f \in DashboardFailures : apiError' = classify(f).message
  /\ isCalculating' = FALSE
  /\ showPrediction' = TRUE
  /\ historicalData' = historicalData \o predictionPoints(0)
  /\ predicts' = [predicts EXCEPT ![i] = Ended(@, "failed")]
  /\ UNCHANGED <<exceptDashboard, selectedCountry, inputs, prediction, isLoadingHistory,
                 historyError, predictionMethod, fetches, events>>

\* handlePredict: what an await threw; catch and finally.
PredictThrows(i) ==
  /\ \E f \in DashboardFailures : apiError' = classify(f).message
  /\ isCalculating' = FALSE
  /\ predicts' = [predicts EXCEPT ![i] = Ended(@, "failed")]
  /\ UNCHANGED <<exceptDashboard, selectedCountry, inputs, prediction, historicalData,
                 showPrediction, isLoadingHistory, historyError, predictionMethod, fetches,
                 events>>

\* handlePredict: submitPrediction threw.
PredictFails ==
  /\ program = "dashboard"
  /\ \E i \in 1 .. Len(predicts) :
       /\ predicts[i].stage = "submit"
       /\ PredictThrows(i)

\* handlePredict: its own fetchHistoricalData answered.
PredictHistorySucceeds ==
  /\ program = "dashboard"
  /\ \E i \in 1 .. Len(predicts) :
       /\ predicts[i].stage = "history"
       /\ LET transformed == transformHistoricalData(BackendHistory(predicts[i].country)).returns
          IN  ShowPrediction(i, predicts[i].response.predicted_gdp_growth, <<transformed>>)
       /\ predicts' = [predicts EXCEPT ![i] = Ended(@, "ok")]
  /\ UNCHANGED <<exceptDashboard, selectedCountry, inputs, prediction, isLoadingHistory,
                 historyError, predictionMethod, apiError, fetches, events>>

\* handlePredict: its own fetchHistoricalData threw.
PredictHistoryFails ==
  /\ program = "dashboard"
  /\ \E i \in 1 .. Len(predicts) :
       /\ predicts[i].stage = "history"
       /\ PredictThrows(i)

\* handleReset, of the Reset button: {showPrediction && (...)}.
handleReset ==
  /\ program = "dashboard"
  /\ showPrediction
  /\ events < MaxEvents
  /\ events' = events + 1
  /\ inputs' = EmptyForm
  /\ showPrediction' = FALSE
  /\ prediction' = NoPrediction
  /\ UNCHANGED <<exceptDashboard, selectedCountry, isCalculating, historicalData,
                 isLoadingHistory, historyError, predictionMethod, apiError, fetches,
                 predicts>>

NextDashboard ==
  \/ SelectCountry
  \/ Refresh
  \/ FetchSucceeds
  \/ FetchFails
  \/ EditInput
  \/ ClickGenerate
  \/ ClickRetry
  \/ PredictSucceeds
  \/ PredictFails
  \/ PredictHistorySucceeds
  \/ PredictHistoryFails
  \/ handleReset

vars == <<program, trainVars, predictVars, timelineVars, serviceVars, dashboardVars>>

SpecTrain == InitTrain /\ [][NextTrain]_vars
SpecPredict == InitPredict /\ [][NextPredict]_vars
SpecTimeline == InitTimeline /\ [][NextTimeline]_vars
SpecService == InitService /\ [][NextService]_vars
\* The timer of a call in flight runs out unless the call ends before.
SpecServiceFair == SpecService /\ WF_vars(DeadlinePasses)

SpecDashboard == InitDashboard /\ [][NextDashboard]_vars
\* The timer of a request in flight runs out unless the request ends before.
SpecDashboardFair == SpecDashboard /\ WF_vars(PredictFails \/ PredictHistoryFails)

\* Any of the programs.
Init == InitTrain \/ InitPredict \/ InitTimeline \/ InitService \/ InitDashboard
Next == NextTrain \/ NextPredict \/ NextTimeline \/ NextService \/ NextDashboard
Spec == Init /\ [][Next]_vars

\* ======================================================= the training claims
Rows(d) == 1 .. Len(d)
HasRecord(d, c, y) == \E i \in Rows(d) : d[i].Country = c /\ d[i].Year = y
YearsOf(d, c) == {d[i].Year : i \in {j \in Rows(d) : d[j].Country = c}}
MinYear(S) == CHOOSE y \in S : \A z \in S : y <= z
MaxYear(S) == CHOOSE y \in S : \A z \in S : z <= y
\* The records of country c cover a run of consecutive years.
Contiguous(d, c) ==
  /\ YearsOf(d, c) # {}
  /\ \A y \in MinYear(YearsOf(d, c)) .. MaxYear(YearsOf(d, c)) : y \in YearsOf(d, c)
\* Two rows of d are not in ascending order of Year.
YearsOutOfOrder(d) == \E i, j \in Rows(d) : i < j /\ d[i].Year > d[j].Year

RECURSIVE IsSubsequence(_, _)
\* s is t with some elements left out, the others in the order of t.
IsSubsequence(s, t) ==
  IF s = <<>> THEN TRUE
  ELSE IF t = <<>> THEN FALSE
  ELSE IF Head(s) = Head(t) THEN IsSubsequence(Tail(s), Tail(t))
  ELSE IsSubsequence(s, Tail(t))

\* C1 (as claimed): every row create_lagged_features emits for country c and
\* year Y has as its six lag features the indicator values recorded for c at
\* year Y-1, and as its target the GDP growth recorded for c at year Y.
C1_FeaturesFromPreviousYear ==
  lagged =>
    \A i \in Rows(df) :
      /\ \E j \in Rows(raw_df) :
           /\ raw_df[j].Country = df[i].Country
           /\ raw_df[j].Year = df[i].Year - 1
           /\ \A k \in ColIndices : df[i][LagCols[k]] = raw_df[j][FeatureCols[k]]
      /\ \E j \in Rows(raw_df) :
           /\ raw_df[j].Country = df[i].Country
           /\ raw_df[j].Year = df[i].Year
           /\ df[i][TargetCol] = raw_df[j][TargetCol]

\* C2 (as claimed): a record (c, Y) whose year Y-1 is missing for c yields no
\* row: its features are never filled from an earlier year.
C2_GapsAreDropped ==
  lagged =>
    \A j \in Rows(raw_df) :
      ~HasRecord(raw_df, raw_df[j].Country, raw_df[j].Year - 1)
        => ~HasRecord(df, raw_df[j].Country, raw_df[j].Year)

\* C3: a country whose records cover n consecutive years, given in any order,
\* gets exactly n-1 rows, one for each of its years except the earliest.
C3_ContiguousRowCount ==
  lagged =>
    \A c \in Countries :
      Contiguous(raw_df, c) =>
        /\ Cardinality({i \in Rows(df) : df[i].Country = c})
             = Cardinality(YearsOf(raw_df, c)) - 1
        /\ YearsOf(df, c) = YearsOf(raw_df, c) \ {MinYear(YearsOf(raw_df, c))}

\* A country with three consecutive years, read out of order, was lagged.
C3_Witness ==
  /\ lagged
  /\ \E c \in Countries :
       /\ Contiguous(raw_df, c)
       /\ Cardinality(YearsOf(raw_df, c)) >= 3
       /\ YearsOutOfOrder(SelectSeq(raw_df, LAMBDA row : row.Country = c))
       /\ Cardinality({i \in Rows(df) : df[i].Country = c}) >= 2

\* C4: when both partitions of a split are non-empty, every year of train is
\* smaller than every year of test.
C4_TrainBeforeTest ==
  (stage = "split" /\ train_df # <<>> /\ test_df # <<>>) =>
    \A i \in Rows(train_df) : \A j \in Rows(test_df) : train_df[i].Year < test_df[j].Year

\* A split of rows that are not in order of year, with the year before the cut
\* in train and the cut year in test.
C4_Witness ==
  /\ stage = "split"
  /\ YearsOutOfOrder(df)
  /\ \E i \in Rows(train_df) : train_df[i].Year = split_year - 1
  /\ \E j \in Rows(test_df) : test_df[j].Year = split_year

\* C5: a split is an order-preserving partition: each input row is in exactly
\* one of train (year < cut) and test (year >= cut), none is added, lost or
\* repeated, and each partition keeps the order of the input.
C5_OrderPreservingPartition ==
  stage = "split" =>
    /\ Len(train_df) + Len(test_df) = Len(df)
    /\ \A i \in Rows(df) :
         /\ df[i].Year < split_year =>
              /\ Cardinality({j \in Rows(train_df) : train_df[j] = df[i]}) = 1
              /\ \A j \in Rows(test_df) : test_df[j] # df[i]
         /\ df[i].Year >= split_year =>
              /\ Cardinality({j \in Rows(test_df) : test_df[j] = df[i]}) = 1
              /\ \A j \in Rows(train_df) : train_df[j] # df[i]
    /\ IsSubsequence(train_df, df)
    /\ IsSubsequence(test_df, df)

\* A split with a row of the cut year (in test), a row in train, and the rows
\* of test not in order of year.
C5_Witness ==
  /\ stage = "split"
  /\ train_df # <<>>
  /\ \E j \in Rows(test_df) : test_df[j].Year = split_year
  /\ YearsOutOfOrder(test_df)

\* ==================================================== the POST /predict claims
\* The spec's names for the outcomes of the request pipeline.
Validated == program = "predict" /\ pc \in {"validated", "encoded", "done"}
Responded == program = "predict" /\ pc = "done"
NumericIndices == 1 .. Len(numeric_fields)
MissingSet(d) ==
  {required_fields[i] : i \in {j \in 1 .. Len(required_fields) : required_fields[j] \notin DOMAIN d}}
\* v is a number of [-100, 100], bounds included.
Within(v) == Len(v) = 1 /\ RangeMin <= v[1] /\ v[1] <= RangeMax
\* The numeric fields (by index) that float() refuses, and those it accepts
\* with a value outside the range.
NotCoercible(d) == {i \in NumericIndices : ~float(d[numeric_fields[i]]).ok}
OutsideRange(d) ==
  {i \in NumericIndices :
     float(d[numeric_fields[i]]).ok /\ ~Within(float(d[numeric_fields[i]]).value)}
TrimmedCountry(d) == strip(str(d["Country"]))
Least(S) == CHOOSE i \in S : \A j \in S : i <= j
Outcome(kind, field) == [kind |-> kind, field |-> field]

\* The outcome of the checks of the route: Success when the request passed
\* them all and went on to the model.
ActualOutcome ==
  LET text == response.message.text
      named == IF Len(response.message.fields) = 1 THEN response.message.fields[1] ELSE ""
  IN  CASE model_calls > 0 -> Outcome("Success", "")
        [] response.error = "Unknown country" -> Outcome("UnknownCountry", "")
        [] text = MsgMissing -> Outcome("MissingFields", "")
        [] text = MsgEmptyCountry -> Outcome("EmptyCountry", "")
        [] text = MsgInvalid -> Outcome("InvalidType", named)
        [] text = MsgOutOfRange -> Outcome("OutOfRange", named)
        [] OTHER -> Outcome("None", "")

\* C6: a payload that lacks required fields gets MissingFields listing exactly
\* the missing names, all of them, each once; it never gets a success, and a
\* field sent under another name counts as missing (no value stands in for it).
\* The required names are the code's: Country, Population, Exports, Imports,
\* Investment, Consumption, Govt_Spend.
C6_MissingFieldsListsAllMissing ==
  (Validated /\ MissingSet(data) # {}) =>
    /\ ~validation.is_valid
    /\ validation.validated_data = NoData
    /\ validation.error_msg.text = MsgMissing
    /\ {validation.error_msg.fields[i] : i \in 1 .. Len(validation.error_msg.fields)}
         = MissingSet(data)
    /\ Len(validation.error_msg.fields) = Cardinality(MissingSet(data))
    /\ pc = "done"
    /\ response.status = 400
    /\ response.message = validation.error_msg
    /\ model_calls = 0

\* A payload with two or more fields missing, one of them sent under the
\* dashboard's name, was answered.
C6_Witness ==
  /\ Responded
  /\ Cardinality(MissingSet(data)) >= 2
  /\ \E f \in MissingSet(data) : SentAs(f) \in DOMAIN data
  /\ \E f \in MissingSet(data) : SentAs(f) \notin DOMAIN data
  /\ response.status = 400

\* The failure of the earliest violated step, in the order of the claim:
\* (a) missing, (b) coercion of every numeric field, (c) range of every
\* numeric field, (d) empty country, (e) unknown country.
ClaimedOutcome(d) ==
  IF MissingSet(d) # {} THEN Outcome("MissingFields", "")
  ELSE IF NotCoercible(d) # {}
    THEN Outcome("InvalidType", numeric_fields[Least(NotCoercible(d))])
  ELSE IF OutsideRange(d) # {}
    THEN Outcome("OutOfRange", numeric_fields[Least(OutsideRange(d))])
  ELSE IF TrimmedCountry(d) = <<>> THEN Outcome("EmptyCountry", "")
  ELSE IF TrimmedCountry(d) \notin Vocabulary THEN Outcome("UnknownCountry", "")
  ELSE Outcome("Success", "")

\* The same in the order (a) missing, (d) empty country, then for each numeric
\* field in turn its coercion and at once its range check, (e) unknown country.
AmendedOutcome(d) ==
  IF MissingSet(d) # {} THEN Outcome("MissingFields", "")
  ELSE IF TrimmedCountry(d) = <<>> THEN Outcome("EmptyCountry", "")
  ELSE IF NotCoercible(d) \cup OutsideRange(d) # {}
    THEN LET i == Least(NotCoercible(d) \cup OutsideRange(d))
         IN  Outcome(IF i \in NotCoercible(d) THEN "InvalidType" ELSE "OutOfRange",
                     numeric_fields[i])
  ELSE IF TrimmedCountry(d) \notin Vocabulary THEN Outcome("UnknownCountry", "")
  ELSE Outcome("Success", "")

\* C7 (as claimed): the failure returned is that of the earliest violated step
\* in the order (a) missing, (b) coercion, (c) range, (d) empty country,
\* (e) unknown country.
C7_ClaimedStepOrder == Responded => ActualOutcome = ClaimedOutcome(data)

\* C7 (amended): the failure returned is that of the earliest violated step in
\* the order (a) missing fields, (d) empty country, then field by field in the
\* enumeration order (b) coercion and (c) range of that field, (e) unknown
\* country.
C7_StepOrderOfTheCode == Responded => ActualOutcome = AmendedOutcome(data)

\* A payload with a field out of range before a field that is no number was
\* answered with OutOfRange for the former.
C7_Witness ==
  /\ Responded
  /\ MissingSet(data) = {}
  /\ NotCoercible(data) # {}
  /\ OutsideRange(data) # {}
  /\ Least(OutsideRange(data)) < Least(NotCoercible(data))
  /\ ActualOutcome.kind = "OutOfRange"

\* All fields but the numeric field f pass every check.
OtherwiseValid(d, f) ==
  /\ MissingSet(d) = {}
  /\ \A i \in NumericIndices :
       numeric_fields[i] # f =>
         float(d[numeric_fields[i]]).ok /\ Within(float(d[numeric_fields[i]]).value)
  /\ TrimmedCountry(d) \in Vocabulary

\* C8 (as claimed): an otherwise valid payload with one numeric field outside
\* [-100, 100] fails with OutOfRange carrying the field's name, the given value
\* and the bounds -100 and 100; the values -100 and 100 themselves are accepted.
C8_OutOfRangeNamesFieldValueBounds ==
  Responded =>
    \A i \in NumericIndices :
      LET f == numeric_fields[i]
      IN  (OtherwiseValid(data, f) /\ float(data[f]).ok /\ ~IsNaN(float(data[f]).value)) =>
            IF Within(float(data[f]).value)
              THEN validation.is_valid /\ model_calls = 1
              ELSE /\ response.status = 400
                   /\ response.message.text = MsgOutOfRange
                   /\ response.message.fields = <<f>>
                   /\ response.message.values
                        = <<float(data[f]).value, Num(RangeMin), Num(RangeMax)>>

\* Some required field is missing, some numeric field is no number or not in
\* the range, or the country is empty after the trim.
ViolatesValidation(d) ==
  \/ MissingSet(d) # {}
  \/ NotCoercible(d) \cup OutsideRange(d) # {}
  \/ TrimmedCountry(d) = <<>>

NumbersInRangeCountryTrimmed ==
  /\ \A i \in NumericIndices : Within(validation.validated_data[numeric_fields[i]])
  /\ validation.validated_data["Country"] = TrimmedCountry(data)
  /\ validation.validated_data["Country"] # <<>>

\* C9 (as claimed): whenever validate returns success, its six numbers are in
\* [-100, 100] and its country is the trimmed, non-empty input country and a
\* key of the Vocabulary; no payload violating any of these gets a success.
C9_SuccessImpliesKnownCountry ==
  /\ (program = "predict" /\ validation.is_valid) =>
       /\ NumbersInRangeCountryTrimmed
       /\ validation.validated_data["Country"] \in Vocabulary
  /\ (Validated /\ (ViolatesValidation(data) \/ TrimmedCountry(data) \notin Vocabulary)) =>
       ~validation.is_valid

\* C9 (amended): whenever validate_prediction_input returns success, its six
\* numbers are in [-100, 100] and its country is the trimmed, non-empty input
\* country; that the country is a key of the Vocabulary holds once the route's
\* encoder lookup, which follows validate, has passed.  No payload violating
\* the former gets a success of validate, and none with a country outside the
\* Vocabulary passes the lookup or gets a 200.
C9_SuccessImpliesRangeAndTrim ==
  /\ (program = "predict" /\ validation.is_valid) => NumbersInRangeCountryTrimmed
  /\ (program = "predict" /\ (pc = "encoded" \/ response.status = 200)) =>
       /\ validation.is_valid
       /\ validation.validated_data["Country"] \in Vocabulary
  /\ (Validated /\ ViolatesValidation(data)) => ~validation.is_valid
  /\ (Validated /\ ~ViolatesValidation(data) /\ TrimmedCountry(data) \notin Vocabulary) =>
       (pc # "encoded" /\ response.status # 200)

\* A payload whose country needed the trim and with a number on a bound of the
\* range passed validate and the lookup.
C9_Witness ==
  /\ program = "predict"
  /\ pc = "encoded"
  /\ validation.is_valid
  /\ data["Country"].s # validation.validated_data["Country"]
  /\ \E i \in NumericIndices :
       validation.validated_data[numeric_fields[i]] \in {Num(RangeMin), Num(RangeMax)}

\* C10: model.predict is invoked only after validate returned success (and the
\* country was found in the Vocabulary), at most once per request; a request
\* that passes every other check and whose trimmed country is not in the
\* Vocabulary ends in 'Unknown country' naming that country, the model never
\* having been invoked.
C10_ModelOnlyAfterValidation ==
  /\ (program = "predict" /\ model_calls > 0) =>
       /\ model_calls = 1
       /\ validation.is_valid
       /\ validation.validated_data["Country"] \in Vocabulary
       /\ country_code = transform(validation.validated_data["Country"]).code
  /\ (Responded /\ ~ViolatesValidation(data) /\ TrimmedCountry(data) \notin Vocabulary) =>
       /\ response.status = 400
       /\ response.error = "Unknown country"
       /\ response.country = TrimmedCountry(data)
       /\ model_calls = 0

\* A request for an unknown country, sent with a trailing blank, was answered.
C10_Witness ==
  /\ Responded
  /\ "Country" \in DOMAIN data
  /\ data["Country"] = JStr(<<"A", "T", " ">>)
  /\ response.error = "Unknown country"
  /\ response.country = AT

\* The request passed validate and the encoder: it is a ValidatedInput, and
\* the route has reached (or passed) the model call.
IsValidatedInput ==
  /\ program = "predict"
  /\ validation.is_valid
  /\ validation.validated_data["Country"] \in Vocabulary
PrimaryAvailable ==
  model_predict(model, Features(transform(validation.validated_data["Country"]).code,
                                validation.validated_data)).ok

\* C11: for every ValidatedInput the route answers with a prediction and never
\* with an error: method 'AI Model' when model.predict succeeds, and a numeric
\* growth with method 'Simulation' when model.predict raises (model not
\* loaded, shape mismatch).
C11_PredictNeverFails ==
  (Responded /\ IsValidatedInput) =>
    /\ response.status = 200
    /\ response.method = IF PrimaryAvailable THEN "AI Model" ELSE "Simulation"

Transformed == program = "timeline" /\ step \in {"transformed", "merged"}
Merged == program = "timeline" /\ step = "merged"
NumericYear(point) == DigitsValue(point.year)
YearText(year) == NatToText(year)
LastYearOf(points) == NumericYear(points[Len(points)])
\* The timeline is the points pts followed by two prediction points of the
\* years y1 and y2.
PrefixThenTwoPredictions(pts, y1, y2) ==
  /\ Len(timeline) = Len(pts) + 2
  /\ SubSeq(timeline, 1, Len(pts)) = pts
  /\ timeline[Len(pts) + 1].type = "prediction"
  /\ timeline[Len(pts) + 2].type = "prediction"
  /\ timeline[Len(pts) + 1].year = YearText(y1)
  /\ timeline[Len(pts) + 2].year = YearText(y2)

C14_TimelineStrictlyIncreasing ==
  Merged =>
    /\ \A i \in 1 .. Len(timeline) - 1 : NumericYear(timeline[i]) < NumericYear(timeline[i + 1])
    /\ \A i, j \in 1 .. Len(timeline) :
         (timeline[i].type = "historical" /\ timeline[j].type = "prediction") => i < j

\* C15: transformHistoricalData returns one point per record, in the place of
\* the record: its year is the record's year as a text, its growth the number
\* with two decimals nearest to the record's GDP growth, its type historical.
C15_OnePointPerRecord ==
  Transformed =>
    /\ Len(chartData) = Len(backendData)
    /\ \A i \in 1 .. Len(chartData) :
         /\ chartData[i].year = YearText(backendData[i].Year)
         /\ chartData[i].type = "historical"
         /\ chartData[i].growth % 10 = 0
         /\ 2 * Abs(chartData[i].growth - backendData[i].GDP_Growth) <= 10

\* A record with a growth of three decimals was rounded away from zero, and
\* one was rounded to zero.
C15_Witness ==
  /\ Transformed
  /\ \E i \in 1 .. Len(chartData) :
       backendData[i].GDP_Growth = -1799 /\ chartData[i].growth = -1800
  /\ \E i \in 1 .. Len(chartData) :
       backendData[i].GDP_Growth = -4 /\ chartData[i].growth = 0

TransformStep == program = "timeline" /\ step = "fetched" /\ step' = "transformed"

\* C16 (as claimed): whatever the order of the records, the points returned
\* are in ascending order of numeric year, and the array of records is the
\* same after the call.
C16_TransformSorts ==
  [][TransformStep =>
       /\ backendData' = backendData
       /\ \A i \in 1 .. Len(chartData') - 1 :
            NumericYear(chartData'[i]) <= NumericYear(chartData'[i + 1])]_vars

\* C16 (amended): the points returned are in the order of the records (point i
\* is of record i, sorted or not), and the array of records is the same after
\* the call.
C16_TransformKeepsOrder ==
  [][TransformStep =>
       /\ backendData' = backendData
       /\ Len(chartData') = Len(backendData)
       /\ \A i \in 1 .. Len(backendData) : chartData'[i].year = YearText(backendData[i].Year)]_vars

\* Records that were not in the order of their years were transformed.
C16_Witness ==
  /\ Transformed
  /\ \E i \in 1 .. Len(backendData) - 1 : backendData[i].Year > backendData[i + 1].Year
  /\ \E i \in 1 .. Len(chartData) - 1 : NumericYear(chartData[i]) > NumericYear(chartData[i + 1])

Failed == program = "service" /\ phase = "ended" /\ failure # NoFailure
FailedBefore == program = "service" /\ previous.failure # NoFailure
Kinds == {"Network", "Timeout", "ClientError", "ServerError", "Validation", "Unknown"}
FixedKinds == {"Network", "Timeout", "ServerError", "Unknown"}
Is4xx(f) == f.origin = "response" /\ 400 <= f.status /\ f.status <= 499
Is5xx(f) == f.origin = "response" /\ 500 <= f.status /\ f.status <= 599

\* C18: every failure gets exactly one kind, by its origin: no connection gives
\* Network (retryable), deadline exceeded Timeout (retryable), a 4xx response
\* ClientError (not retryable), a 5xx response ServerError (retryable), a
\* failure of the validator Validation with its field list (not retryable),
\* anything else Unknown (not retryable).
C18_ClassifyFollowsTheTable ==
  Failed =>
    /\ classified.kind \in Kinds
    /\ failure.origin = "connection" => (classified.kind = "Network" /\ classified.retryable)
    /\ failure.origin = "deadline" => (classified.kind = "Timeout" /\ classified.retryable)
    /\ Is4xx(failure) => (classified.kind = "ClientError" /\ ~classified.retryable)
    /\ Is5xx(failure) => (classified.kind = "ServerError" /\ classified.retryable)
    /\ failure.origin = "validator" =>
         /\ classified.kind = "Validation"
         /\ classified.fields = failure.fields
         /\ ~classified.retryable
    /\ (\/ failure.origin = "other"
        \/ (failure.origin = "response" /\ ~Is4xx(failure) /\ ~Is5xx(failure))) =>
         (classified.kind = "Unknown" /\ ~classified.retryable)

\* A response of status 599 was classified after one of status 499.
C18_Witness ==
  /\ Failed
  /\ failure.status = 599
  /\ classified.kind = "ServerError"
  /\ previous.failure.status = 499
  /\ previous.classified.kind = "ClientError"

\* C19: two failures classified Network, Timeout, ServerError or Unknown alike
\* get the same message, whatever the text of their exceptions, and that text
\* is no part of the message.
C19_FixedMessagePerKind ==
  /\ (Failed /\ classified.kind \in FixedKinds) =>
       /\ classified.message.detail = ""
       /\ classified.message.text \notin RawTexts
  /\ (Failed /\ FailedBefore /\ classified.kind \in FixedKinds
        /\ classified.kind = previous.classified.kind) =>
       classified.message = previous.classified.message

\* Two failures with different exception texts were both classified Unknown.
C19_Witness ==
  /\ Failed
  /\ FailedBefore
  /\ classified.kind = "Unknown"
  /\ previous.classified.kind = "Unknown"
  /\ failure.raw # ""
  /\ previous.failure.raw # ""
  /\ failure.raw # previous.failure.raw

\* C20: a call in flight ends (no call is in flight for ever), and a call that
\* ended because its deadline passed is classified Timeout, retryable.
C20_CallsAreBounded ==
  /\ [](Failed /\ failure.origin = "deadline" =>
          classified.kind = "Timeout" /\ classified.retryable)
  /\ (program = "service" /\ phase = "in_flight") ~> (phase = "ended")

\* A call of the prediction endpoint ended because its deadline passed.
C20_Witness ==
  /\ Failed
  /\ endpoint = "predict"
  /\ failure.origin = "deadline"
  /\ classified.kind = "Timeout"

\* ---------------------------------------------------------------- Dashboard
\* The call i of handlePredict goes from one stage to another in this step.
Moves(i, from, to) == predicts[i].stage = from /\ predicts'[i].stage = to
PredictCalls == 1 .. Len(predicts)
FetchCalls == 1 .. Len(fetches)
PredictionsIn(points) == Len(OfType(points, "prediction"))

\* C21: when the prediction request of a call of handlePredict fails, apiError
\* becomes the message of the classified failure, showPrediction and
\* historicalData stay as they are (no prediction point is added),
\* selectedCountry and the six inputs stay as they are, isCalculating is
\* false, and Retry (shown while apiError is set) calls handlePredict again.
C21_FailedPredictionFabricatesNothing ==
  [][\A i \in PredictCalls :
       Moves(i, "submit", "failed") =>
         /\ \E f \in DashboardFailures : apiError' = classify(f).message
         /\ apiError' # NullMessage
         /\ showPrediction' = showPrediction
         /\ historicalData' = historicalData
         /\ selectedCountry' = selectedCountry
         /\ inputs' = inputs
         /\ isCalculating' = FALSE]_vars

\* A prediction request failed: its message is shown, nothing is predicted.
C21_Witness ==
  /\ \E i \in PredictCalls : predicts[i].stage = "failed" /\ ~predicts[i].fetched
  /\ apiError # NullMessage
  /\ ~showPrediction
  /\ ~isCalculating
  /\ HasEveryInput(selectedCountry, inputs)

\* The call i of handleCountryChange goes from one state to another in this step.
FetchMoves(i, from, to) == fetches[i].state = from /\ fetches'[i].state = to
AllHistorical(points) == \A k \in 1 .. Len(points) : points[k].type = "historical"

\* C22: when the fetch of a call of handleCountryChange fails, historyError
\* becomes the message of the classified failure, historicalData becomes a
\* non-empty series of historical points, isLoadingHistory is false, and
\* Refresh (shown while historyError is set) starts the fetch again.
C22_FailedHistoryShowsPlaceholder ==
  [][\A i \in FetchCalls :
       FetchMoves(i, "pending", "failed") =>
         /\ \E f \in DashboardFailures : historyError' = classify(f).message
         /\ historyError' # NullMessage
         /\ selectedCountry' # ""
         /\ historicalData' # <<>>
         /\ AllHistorical(historicalData')
         /\ isLoadingHistory' = FALSE]_vars

\* The chart points of the history the backend has for a country.
SeriesOf(country) == transformHistoricalData(BackendHistory(country)).returns
\* The call i of handlePredict ends well in this step.
Succeeds(i) == Moves(i, "submit", "ok") \/ Moves(i, "history", "ok")
\* The growth that the prediction request of such a call was answered with.
Answered(i) ==
  IF predicts[i].stage = "history" THEN predicts[i].response.predicted_gdp_growth
  ELSE prediction'[1]

\* C23: when a call of handlePredict succeeds, historicalData is the historical
\* points of the call's country followed by the prediction points of the
\* predicted growth, also when the call fetched the history itself.
C23_SuccessMergesOneTimeline ==
  [][\A i \in PredictCalls :
       Succeeds(i) =>
         historicalData' = SeriesOf(predicts[i].country) \o predictionPoints(Answered(i))]_vars

\* The calls of handlePredict that await a response.
InFlight == {i \in PredictCalls : predicts[i].stage \in {"submit", "history"}}

\* C24: while a call of handlePredict awaits a response isCalculating is true
\* and Generate Prediction is disabled, at most one call awaits a response at
\* a time, and a call that awaits a response leads to isCalculating false.
C24_CalculatingWhileInFlight ==
  /\ [](InFlight # {} => isCalculating /\ GenerateDisabled)
  /\ [](Cardinality(InFlight) <= 1)
  /\ (InFlight # {}) ~> (InFlight = {} /\ ~isCalculating)

\* A second call awaits the history it fetches, after a first call that failed.
C24_Witness ==
  /\ Len(predicts) = 2
  /\ predicts[1].stage = "failed"
  /\ predicts[2].stage = "history"
  /\ isCalculating

\* The calls of handleCountryChange that await their response.
Pending == {i \in FetchCalls : fetches[i].state = "pending"}

\* C25: isLoadingHistory is true in every state in which a fetch started by
\* handleCountryChange has not completed.
C25_LoadingWhilePending == Pending # {} => isLoadingHistory

\* handlePredict is called in this step.
Called == Len(predicts') = Len(predicts) + 1
\* The state of the Dashboard that its render shows.
Rendered ==
  <<selectedCountry, inputs, isCalculating, prediction, historicalData, showPrediction,
    isLoadingHistory, historyError, predictionMethod, apiError>>

\* C26: a call of handlePredict made while selectedCountry or one of the six
\* inputs is empty returns at once: it sends no request and changes no state
\* of the Dashboard.
C26_NoRequestWithoutAllInputs ==
  [][(Called /\ ~HasEveryInput(selectedCountry, inputs)) =>
       /\ predicts'[Len(predicts')].stage = "returned"
       /\ predicts'[Len(predicts')].requests = <<>>
       /\ InFlight' = InFlight
       /\ Rendered' = Rendered
       /\ fetches' = fetches]_vars

\* Retry was clicked after the user had emptied an input: the call returned.
C26_Witness ==
  /\ predicts # <<>>
  /\ predicts[Len(predicts)].stage = "returned"
  /\ selectedCountry # ""
  /\ \E name \in InputNameSet : inputs[name] = EmptyText
  /\ \E name \in InputNameSet : inputs[name] # EmptyText

\* C27: the completion of a successful call of handlePredict leaves apiError
\* null, and the completion of a successful history fetch, of
\* handleCountryChange or of handlePredict, leaves historyError null,
\* whatever failed before.
C27_SuccessClearsTheError ==
  [][/\ \A i \in PredictCalls : Succeeds(i) => apiError' = NullMessage
     /\ \A i \in FetchCalls : FetchMoves(i, "pending", "ok") => historyError' = NullMessage
     /\ \A i \in PredictCalls : Moves(i, "history", "ok") => historyError' = NullMessage]_vars

\* C28: once every fetch of handleCountryChange has completed, and the one of
\* the last selection with a response, historicalData is the series of the
\* country selected last, which is selectedCountry (no prediction was asked
\* for).
C28_LastSelectionWins ==
  (/\ fetches # <<>>
   /\ Pending = {}
   /\ fetches[Len(fetches)].state = "ok"
   /\ predicts = <<>>) =>
    /\ selectedCountry = fetches[Len(fetches)].country
    /\ historicalData = SeriesOf(selectedCountry)

\* C29: historicalData never holds more than two prediction points, and they
\* come after every historical point; a call of handlePredict that succeeds
\* leaves the two points of its own prediction and no other.
C29_AtMostOneForecast ==
  /\ [](/\ PredictionsIn(historicalData) <= 2
        /\ \A j, k \in 1 .. Len(historicalData) :
             (historicalData[j].type = "historical" /\ historicalData[k].type = "prediction")
               => j < k)
  /\ [][\A i \in PredictCalls :
          Succeeds(i) =>
            OfType(historicalData', "prediction") = predictionPoints(Answered(i))]_vars

\* A second prediction for a loaded history succeeded after a first.
C29_Witness ==
  /\ Len(predicts) = 2
  /\ predicts[1].stage = "ok"
  /\ predicts[2].stage = "ok"
  /\ ~predicts[2].fetched
  /\ PredictionsIn(historicalData) = 2
  /\ Len(historicalData) > 2

\* The call i of handlePredict ends in its catch block in this step.
Fails(i) == Moves(i, "submit", "failed") \/ Moves(i, "history", "failed")

\* C30: when a call of handlePredict ends in its catch block, whichever of its
\* requests failed, apiError is set and prediction and predictionMethod are
\* what they were when the call began (prediction may have been reset by
\* handleReset since).
C30_ErrorLeavesTheResultAlone ==
  [][\A i \in PredictCalls :
       Fails(i) =>
         /\ apiError' # NullMessage
         /\ predictionMethod' = predicts[i].before[1].predictionMethod
         /\ prediction' \in {predicts[i].before[1].prediction, NoPrediction}]_vars

====
